---- MODULE Spec2Model ----
(***************************************************************************)
(* Model of the tile generation driver of oxidized_navigation (src/lib.rs): *)
(* the affector bookkeeping systems, the dispatch of build_tile and         *)
(* remove_tile runs stamped by GenerationTicker, and the generation-gated   *)
(* install of their results in the shared NavMeshTiles map.                 *)
(*                                                                         *)
(* World positions are measured in cells (cell_width = 1), so that the      *)
(* f32 grid arithmetic of NavMeshSettings is integer arithmetic here.       *)
(***************************************************************************)
EXTENDS Integers, Sequences, FiniteSets, TLC

\* ------------------------------------------------------------------ bounds
\* Number of entities of the world.
NumEntities == 2
\* Largest stamp the ticker issues in the bounded model.
MaxGen == 4
\* Number of changes the world makes to its affectors in one behaviour.
MaxWorldChanges == 3
\* Number of stamps of the ring the dispatch specification issues stamps from.
RingSize == 2
\* Number of entities that move in the dispatch specification.
NumLiveEntities == 1
\* Largest configured cap of the dispatch specification.
MaxLiveCap == 1
\* Largest configured cap on generation tasks (Some(0) .. Some(MaxCap)).
MaxCap == 2
\* Largest stamp of a run of the lock specification.
MaxLockGen == 3
\* Largest of the small numbers of tasks and of tiles a pass is tried with.
MaxSmallCount == 3
\* Largest area type of a NavMeshAreaType component.
MaxArea == 1
\* Largest coordinate of the grid the segments of intersect are drawn on.
MaxCoord == 2
\* Number of vertices of the outlines in_cone is tried with.
OutlineLen == 3

\* ---------------------------------------------------------------- settings
\* NavMeshSettings::cell_width (the unit of length of the model).
cell_width == 1
\* NavMeshSettings::tile_width, in cells.
tile_width == 8
\* NavMeshSettings::walkable_radius, in cells.
walkable_radius == 1
\* NavMeshSettings::world_half_extents, in cells.
world_half_extents == 8
\* u16::MAX, the task count used when max_tile_generation_tasks is None.
U16Max == 65535

Entities == 1..NumEntities

\* Option<u16>: None is the empty set, Some(n) is {n}.
None == {}
Some(n) == {n}
\* Option::unwrap_or
unwrap_or(opt, default) == IF opt = None THEN default ELSE CHOOSE n \in opt : TRUE
\* The values of max_tile_generation_tasks the model is run with.
CapValues == {None} \cup { Some(n) : n \in 0..MaxCap }

\* The bounding boxes (mins.x, maxs.x, mins.z, maxs.z of the world AABB) an
\* entity's collider can take in the model.
Boxes ==
    { [minx |-> -6, maxx |-> -3, minz |-> -6, maxz |-> -3],
      [minx |->  2, maxx |->  5, minz |-> -6, maxz |-> -3],
      [minx |-> -3, maxx |->  2, minz |-> -6, maxz |-> -3] }

\* ------------------------------------------------------------ grid helpers
\* NavMeshSettings::get_tile_size
get_tile_size == cell_width * tile_width

\* f32 -> u32 of Vec2::as_uvec2: truncation, negative values saturate to 0.
as_u32(num, den) == IF num < 0 THEN 0 ELSE num \div den

\* NavMeshSettings::get_tile_containing_position, one coordinate.
get_tile_containing_position(p) == as_u32(p + world_half_extents, get_tile_size)

\* border_expansion of update_navmesh_affectors_system.
border_expansion == (walkable_radius * 2) * cell_width

\* min_tile and max_tile of update_navmesh_affectors_system.
min_tile(b) == [x |-> get_tile_containing_position(b.minx - border_expansion),
                y |-> get_tile_containing_position(b.minz - border_expansion)]
max_tile(b) == [x |-> get_tile_containing_position(b.maxx + border_expansion),
                y |-> get_tile_containing_position(b.maxz + border_expansion)]

\* The tile rectangle min_tile..=max_tile iterated by the system.
TileRect(b) == { [x |-> i, y |-> j] : i \in min_tile(b).x .. max_tile(b).x,
                                      j \in min_tile(b).y .. max_tile(b).y }

AllTiles == UNION { TileRect(b) : b \in Boxes }

\* -------------------------------------------------------------------- state
VARIABLES
    max_tile_generation_tasks, \* NavMeshSettings::max_tile_generation_tasks
    entState,                  \* per entity: "plain", "affector" or "despawned"
    box,                       \* per entity: the AABB of its collider and transform
    changed,                   \* entities whose Changed<..> filter is pending
    removed,                   \* pending RemovedComponents<NavMeshAffector> events
    tile_affectors,            \* TileAffectors: tile -> set of entities
    affector_relations,        \* NavMeshAffectorRelations: entity -> tiles
    dirty_tiles,               \* DirtyTiles
    generation_ticker,         \* GenerationTicker
    active_generation_tasks,   \* ActiveGenerationTasks, each task named by its stamp
    runs,                      \* spawned build_tile / remove_tile runs not yet completed
    nav_mesh,                  \* NavMeshTiles behind the RwLock: tiles, tile_generations
    frame,                     \* systems of the schedule that already ran this frame
    dispatched,                \* history: the stamps issued, in dispatch order
    newest,                    \* history: per tile, the run dispatched last for it
    last,                      \* history: the run that completed last, and what it found
    world_changes,             \* history: the number of changes the world made
    writer,                    \* the run holding the RwLock write guard, and its position
    reading,                   \* a reader holds the RwLock read guard
    poisoned,                  \* the RwLock is poisoned
    stamper,                   \* history: per tile, the run that recorded its generation
    shape,                     \* per entity: the ColliderView variant of its collider
    area_type,                 \* per entity: its NavMeshAreaType component, if any
    args,                      \* arguments of a direct call of a function
    result                     \* what the call returned

vars == << max_tile_generation_tasks, entState, box, changed, removed,
           tile_affectors, affector_relations, dirty_tiles, generation_ticker,
           active_generation_tasks, runs, nav_mesh, frame, dispatched, newest, last,
           world_changes, writer, reading, poisoned, stamper, shape, area_type,
           args, result >>

worldVars  == << entState, box, changed, removed >>
lockVars     == << writer, reading, poisoned, stamper >>
colliderVars == << shape, area_type >>
callVars     == << args, result >>
driverVars == << tile_affectors, affector_relations, dirty_tiles,
                 generation_ticker, active_generation_tasks, frame, dispatched,
                 newest >>

\* The AABB of an entity that is no affector is of no interest to the systems.
NoBox == [minx |-> 0, maxx |-> 0, minz |-> 0, maxz |-> 0]
\* "No entry for the coordinate" and "no run completed yet".
NoTile == [absent |-> TRUE]
NoRun  == [kind |-> "none"]
\* HashMap::default()
EmptyMap == [x \in {} |-> 0]

\* Systems ordered before send_tile_rebuild_tasks_system by the plugin.
SystemsBeforeSend == {"handle_removed_affectors_system", "remove_finished_tasks",
                      "update_navmesh_affectors_system"}

\* The resources and the world right after OxidizedNavigationPlugin::build.
InitResources ==
    /\ max_tile_generation_tasks \in CapValues
    /\ entState = [e \in Entities |-> "plain"]
    /\ box = [e \in Entities |-> NoBox]
    /\ changed = {}
    /\ removed = {}
    /\ tile_affectors = EmptyMap
    /\ affector_relations = EmptyMap
    /\ dirty_tiles = {}
    /\ generation_ticker = 0
    /\ active_generation_tasks = {}
    /\ runs = {}
    /\ nav_mesh = [tiles |-> EmptyMap, tile_generations |-> EmptyMap]
    /\ frame = {}
    /\ dispatched = << >>
    /\ newest = EmptyMap
    /\ last = NoRun
    /\ world_changes = 0

\* Nobody holds the lock of the tile map, and it is not poisoned.
InitLock ==
    /\ writer = NoRun
    /\ reading = FALSE
    /\ poisoned = FALSE
    /\ stamper = EmptyMap

\* Every collider is a cuboid and no entity carries a NavMeshAreaType.
InitColliders ==
    /\ shape = [e \in Entities |-> "Cuboid"]
    /\ area_type = [e \in Entities |-> None]

\* No function is called directly.
InitCall ==
    /\ args = << >>
    /\ result = << >>

Init == InitResources /\ InitLock /\ InitColliders /\ InitCall

\* ------------------------------------------------------- the shared tile map
\* HashMap::insert
MapInsert(m, k, v) == [x \in (DOMAIN m) \cup {k} |-> IF x = k THEN v ELSE m[x]]
\* HashMap::remove
MapRemove(m, k) == [x \in (DOMAIN m) \ {k} |-> m[x]]

\* NavMeshTiles::add_tile: the tile record replaces the one of the coordinate.
add_tile(tiles, tile_coord, nav_mesh_tile) == MapInsert(tiles, tile_coord, nav_mesh_tile)
\* NavMeshTiles::remove_tile: the entry of the coordinate is deleted.
remove_tile_entry(tiles, tile_coord) == MapRemove(tiles, tile_coord)

\* nav_mesh.tile_generations.get(&tile_coord).unwrap_or(&0)
RecordedGeneration(nm, tile_coord) ==
    IF tile_coord \in DOMAIN nm.tile_generations
    THEN nm.tile_generations[tile_coord] ELSE 0

TileAt(nm, tile_coord) ==
    IF tile_coord \in DOMAIN nm.tiles THEN nm.tiles[tile_coord] ELSE NoTile

\* Mutations of build_tile: the generation check dropped, and reversed.
build_tile_unchecked(generation, tile_coord, nav_mesh_tile, nm) ==
    [tile_generations |-> MapInsert(nm.tile_generations, tile_coord, generation),
     tiles |-> add_tile(nm.tiles, tile_coord, nav_mesh_tile)]

build_tile_reversed(generation, tile_coord, nav_mesh_tile, nm) ==
    IF RecordedGeneration(nm, tile_coord) > generation
    THEN build_tile_unchecked(generation, tile_coord, nav_mesh_tile, nm)
    ELSE nm

\* Mutation of build_tile: a stamp equal to the recorded one is accepted.
build_tile_or_equal(generation, tile_coord, nav_mesh_tile, nm) ==
    IF RecordedGeneration(nm, tile_coord) <= generation
    THEN build_tile_unchecked(generation, tile_coord, nav_mesh_tile, nm)
    ELSE nm

\* The critical section of build_tile, after the pipeline produced nav_mesh_tile.
build_tile(generation, tile_coord, nav_mesh_tile, nm) ==
    IF RecordedGeneration(nm, tile_coord) < generation
    THEN [tile_generations |-> MapInsert(nm.tile_generations, tile_coord, generation),
          tiles |-> add_tile(nm.tiles, tile_coord, nav_mesh_tile)]
    ELSE nm

\* Mutation of remove_tile: the generation check dropped.
remove_tile_unchecked(generation, tile_coord, nm) ==
    [tile_generations |-> MapInsert(nm.tile_generations, tile_coord, generation),
     tiles |-> remove_tile_entry(nm.tiles, tile_coord)]

\* The critical section of remove_tile.
remove_tile(generation, tile_coord, nm) ==
    IF RecordedGeneration(nm, tile_coord) < generation
    THEN [tile_generations |-> MapInsert(nm.tile_generations, tile_coord, generation),
          tiles |-> remove_tile_entry(nm.tiles, tile_coord)]
    ELSE nm

\* The tile record the pipeline of a build run produces: a function of the
\* gathered geometry, tagged with the run that built it.
TileRecord(r) == [built_by |-> r.generation, geometry |-> r.geometry]

\* The number of dropped writes the tile map records: the generation check of
\* build_tile and remove_tile has no else branch, nothing is counted.
DroppedWritesRecorded(nm) == 0

\* What a run leaves in the tile map when it reaches its critical section.
RunResult(r, nm) ==
    IF r.kind = "build"
    THEN build_tile(r.generation, r.tile_coord, TileRecord(r), nm)
    ELSE remove_tile(r.generation, r.tile_coord, nm)

\* History record of a completed run: its kind, and how its stamp compared
\* with the generation recorded for its tile when it took the write lock.
Completed(r, nm) ==
    [kind |-> r.kind, tile_coord |-> r.tile_coord,
     stamp |-> IF r.generation > RecordedGeneration(nm, r.tile_coord) THEN "newer"
               ELSE IF r.generation = RecordedGeneration(nm, r.tile_coord) THEN "equal"
               ELSE "older"]

\* A spawned task runs to completion on the task pool.
CompleteRun(r) ==
    /\ r \in runs
    /\ nav_mesh' = RunResult(r, nav_mesh)
    /\ runs' = runs \ {r}
    /\ last' = Completed(r, nav_mesh)
    /\ UNCHANGED << max_tile_generation_tasks, worldVars, driverVars >>

\* ---------------------------------------------------------------- the world
\* A NavMeshAffector is inserted on an entity whose collider has AABB b.
AddAffector(e, b) ==
    /\ entState[e] = "plain"
    /\ entState' = [entState EXCEPT ![e] = "affector"]
    /\ box' = [box EXCEPT ![e] = b]
    /\ changed' = changed \cup {e}
    /\ UNCHANGED << max_tile_generation_tasks, removed, driverVars, runs, nav_mesh, last >>

\* The collider or the GlobalTransform of an affector changes.
MoveAffector(e, b) ==
    /\ entState[e] = "affector"
    /\ b # box[e]
    /\ box' = [box EXCEPT ![e] = b]
    /\ changed' = changed \cup {e}
    /\ UNCHANGED << max_tile_generation_tasks, entState, removed, driverVars, runs,
                    nav_mesh, last >>

\* The NavMeshAffector component is removed from a living entity.
RemoveAffector(e) ==
    /\ entState[e] = "affector"
    /\ entState' = [entState EXCEPT ![e] = "plain"]
    /\ box' = [box EXCEPT ![e] = NoBox]
    /\ removed' = removed \cup {e}
    /\ UNCHANGED << max_tile_generation_tasks, changed, driverVars, runs, nav_mesh, last >>

\* An affector is despawned.
Despawn(e) ==
    /\ entState[e] = "affector"
    /\ entState' = [entState EXCEPT ![e] = "despawned"]
    /\ box' = [box EXCEPT ![e] = NoBox]
    /\ removed' = removed \cup {e}
    /\ UNCHANGED << max_tile_generation_tasks, changed, driverVars, runs, nav_mesh, last >>

\* -------------------------------------------------------------- the systems
\* The entities the query of update_navmesh_affectors_system yields.
ChangedAffectors == { e \in changed : entState[e] = "affector" }

\* Tiles of a relation that lie outside the rectangle min_tile..=max_tile.
OutsideRect(relation, mn, mx) ==
    { tile_coord \in relation : \/ mn.x > tile_coord.x
                                \/ mn.y > tile_coord.y
                                \/ mx.x < tile_coord.x
                                \/ mx.y < tile_coord.y }

\* The body of the for_each_mut closure of update_navmesh_affectors_system
\* for one entity; st holds tile_affectors (ta), the relations (rel), dirty.
UpdateEntity(e, st) ==
    LET mn == min_tile(box[e])
        mx == max_tile(box[e])
        old == IF e \in DOMAIN st.rel
               THEN OutsideRect(st.rel[e], mn, mx) \cap DOMAIN st.ta
               ELSE {}
        ta1 == [t \in DOMAIN st.ta |->
                    IF t \in old THEN st.ta[t] \ {e} ELSE st.ta[t]]
        rect == { [x |-> i, y |-> j] : i \in mn.x .. mx.x, j \in mn.y .. mx.y }
    IN  [ta    |-> [t \in (DOMAIN ta1) \cup rect |->
                        IF t \in rect
                        THEN (IF t \in DOMAIN ta1 THEN ta1[t] ELSE {}) \cup {e}
                        ELSE ta1[t]],
         rel   |-> MapInsert(st.rel, e, rect),
         dirty |-> st.dirty \cup old \cup rect]

RECURSIVE UpdateAll(_, _)
UpdateAll(es, st) ==
    IF es = {} THEN st
    ELSE LET e == CHOOSE x \in es : TRUE
         IN  UpdateAll(es \ {e}, UpdateEntity(e, st))

update_navmesh_affectors_system ==
    /\ "remove_finished_tasks" \in frame
    /\ "update_navmesh_affectors_system" \notin frame
    /\ LET st == UpdateAll(ChangedAffectors,
                           [ta |-> tile_affectors, rel |-> affector_relations,
                            dirty |-> dirty_tiles])
       IN  /\ tile_affectors' = st.ta
           /\ affector_relations' = st.rel
           /\ dirty_tiles' = st.dirty
    /\ changed' = {}
    /\ frame' = frame \cup {"update_navmesh_affectors_system"}
    /\ UNCHANGED << max_tile_generation_tasks, entState, box, removed,
                    generation_ticker, active_generation_tasks, runs, nav_mesh,
                    dispatched, newest, last >>

\* Variant: the removed relations are dropped without marking their tiles.
NoRelationTiles == {}

\* Tiles of the relations that handle_removed_affectors_system removes.
RemovedRelationTiles ==
    UNION { affector_relations[e] : e \in removed \cap DOMAIN affector_relations }

handle_removed_affectors_system ==
    /\ "remove_finished_tasks" \in frame
    /\ "handle_removed_affectors_system" \notin frame
    /\ dirty_tiles' = dirty_tiles \cup RemovedRelationTiles
    /\ affector_relations' =
           [e \in (DOMAIN affector_relations) \ removed |-> affector_relations[e]]
    /\ removed' = {}
    /\ frame' = frame \cup {"handle_removed_affectors_system"}
    /\ UNCHANGED << max_tile_generation_tasks, entState, box, changed, tile_affectors,
                    generation_ticker, active_generation_tasks, runs, nav_mesh,
                    dispatched, newest, last >>

\* remove_finished_tasks touches ActiveGenerationTasks alone, which the two
\* systems above never read, and they touch nothing a completing task reads:
\* it commutes with them, and the model runs it first in the frame.  The
\* plugin does not order the two systems above, and the model runs them in
\* either order.
\* Variant: every task is taken for finished, and retain keeps none.
is_finished_always(g) == TRUE

\* Task::is_finished of the task stamped g.
is_finished(g) == \A r \in runs : r.generation # g

remove_finished_tasks ==
    /\ "remove_finished_tasks" \notin frame
    /\ active_generation_tasks' = { g \in active_generation_tasks : ~is_finished(g) }
    /\ frame' = frame \cup {"remove_finished_tasks"}
    /\ UNCHANGED << max_tile_generation_tasks, worldVars, tile_affectors,
                    affector_relations, dirty_tiles, generation_ticker, runs,
                    nav_mesh, dispatched, newest, last >>

\* can_generate_new_tiles, the run condition of send_tile_rebuild_tasks_system.
can_generate_new_tiles ==
    /\ \A max \in max_tile_generation_tasks :
           Cardinality(active_generation_tasks) < max
    /\ dirty_tiles # {}

\* Mutation of max_task_count: the active tasks are not subtracted.
max_task_count_whole == unwrap_or(max_tile_generation_tasks, U16Max)

\* max_task_count of send_tile_rebuild_tasks_system.
max_task_count ==
    unwrap_or(max_tile_generation_tasks, U16Max) - Cardinality(active_generation_tasks)

Min(a, b) == IF a < b THEN a ELSE b

\* The orders in which the tiles of a set can come out of the HashSet iterator.
Orders(S) ==
    { s \in [1..Cardinality(S) -> S] : \A i, j \in DOMAIN s : i # j => s[i] # s[j] }

\* tiles_to_generate: dirty_tiles.iter().take(max_task_count), the HashSet
\* yielding its elements in an order the program does not control.
TilesToGenerate(count) ==
    UNION { Orders(S) : S \in { T \in SUBSET dirty_tiles :
                                    Cardinality(T) = Min(count, Cardinality(dirty_tiles)) } }

\* Mutation of StampOf: the ticker is advanced once for the whole pass.
StampOfPass(base, i) == base + 1

\* The value of generation_ticker after the i-th `generation_ticker.0 += 1`
\* of a dispatch pass that started at base.
StampOf(base, i) == base + i

\* A removal run carries no geometry.
NoGeometry == [geometry_collections |-> {}, heightfield_collections |-> {}]

\* The ColliderView variants the gathering loop converts, and the ones it
\* skips with `continue`.
ConvertedShapes ==
    {"Ball", "Cuboid", "Capsule", "TriMesh", "ConvexPolyhedron", "Cylinder", "Cone",
     "RoundCuboid", "RoundCylinder", "RoundCone", "RoundConvexPolyhedron",
     "Triangle", "RoundTriangle"}
UnsupportedShapes == {"Compound", "HalfSpace", "Polyline", "Segment"}

\* type_to_convert: the match on collider.as_typed_shape().
type_to_convert(sh) ==
    CASE sh \in {"Ball", "Cuboid", "Capsule", "Cylinder", "Cone", "Triangle"} ->
            << "Collider", sh >>
      [] sh = "RoundCuboid"   -> << "Collider", "Cuboid" >>
      [] sh = "RoundCylinder" -> << "Collider", "Cylinder" >>
      [] sh = "RoundCone"     -> << "Collider", "Cone" >>
      [] sh = "RoundTriangle" -> << "Collider", "Triangle" >>
      [] sh \in {"TriMesh", "ConvexPolyhedron", "RoundConvexPolyhedron"} ->
            << "RapierTriMesh", sh >>

\* Variant: an entity without NavMeshAreaType is not walkable.
area_default_none(e) ==
    IF area_type[e] = None THEN None ELSE CHOOSE v \in area_type[e] : TRUE

\* `nav_mesh_affector.map_or(Some(0), |area_type| area_type.0)`: area_type[e]
\* is the Option<&NavMeshAreaType> of the query, its value an Option<u16>.
area(e) ==
    IF area_type[e] = None THEN Some(0) ELSE CHOOSE v \in area_type[e] : TRUE

\* Variant: the affector set recorded by an earlier frame is taken as it is,
\* entities that are no affectors any more included.
RecordedAffectors(affectors) == affectors

\* The entities collider_query.iter_many(affectors.iter()) yields.
QueriedAffectors(affectors) == { e \in affectors : entState[e] = "affector" }

\* Variant: an unsupported collider ends the gathering loop of its tile.
GatheredGeometryAborting(affectors) ==
    IF \E e \in QueriedAffectors(affectors) : shape[e] \in UnsupportedShapes
    THEN [geometry_collections |-> {}, heightfield_collections |-> {}]
    ELSE [geometry_collections |->
              { [entity |-> e, geometry_to_convert |-> type_to_convert(shape[e]),
                 area |-> area(e)] :
                  e \in { x \in QueriedAffectors(affectors) : shape[x] \in ConvertedShapes } },
          heightfield_collections |->
              { [entity |-> e, area |-> area(e)] :
                  e \in { x \in QueriedAffectors(affectors) : shape[x] = "HeightField" } }]

\* Step 1 of the loop body: geometry_collections and heightfield_collections
\* gathered from the affectors of the tile.
GatheredGeometry(affectors) ==
    [geometry_collections |->
        { [entity |-> e, geometry_to_convert |-> type_to_convert(shape[e]),
           area |-> area(e)] :
            e \in { x \in QueriedAffectors(affectors) : shape[x] \in ConvertedShapes } },
     heightfield_collections |->
        { [entity |-> e, area |-> area(e)] :
            e \in { x \in QueriedAffectors(affectors) : shape[x] = "HeightField" } }]

\* The task spawned for one tile of tiles_to_generate.
SpawnedRun(tile_coord, generation) ==
    IF tile_coord \notin DOMAIN tile_affectors
    THEN [kind |-> "remove", generation |-> generation, tile_coord |-> tile_coord,
          geometry |-> NoGeometry]
    ELSE IF tile_affectors[tile_coord] = {}
    THEN [kind |-> "remove", generation |-> generation, tile_coord |-> tile_coord,
          geometry |-> NoGeometry]
    ELSE [kind |-> "build", generation |-> generation, tile_coord |-> tile_coord,
          geometry |-> GatheredGeometry(tile_affectors[tile_coord])]

\* The tasks spawned for the drained tiles, the i-th stamped stamps[i].
SpawnedRuns(order, stamps) ==
    [i \in 1..Len(order) |-> SpawnedRun(order[i], stamps[i])]

\* The body of send_tile_rebuild_tasks_system for the drained tiles order,
\* the ticker taking the values stamps[1], stamps[2], ... in the loop.
DispatchPass(order, stamps) ==
    LET n == Len(order)
        spawned == SpawnedRuns(order, stamps)
    IN  /\ dirty_tiles' = dirty_tiles \ { order[i] : i \in 1..n }
        /\ generation_ticker' = stamps[n]
        /\ runs' = runs \cup { spawned[i] : i \in 1..n }
        /\ active_generation_tasks' = active_generation_tasks \cup
               { spawned[i].generation : i \in { j \in 1..n : spawned[j].kind = "build" } }

\* The history of a dispatch pass.
RecordDispatch(order, stamps) ==
    LET n == Len(order)
        spawned == SpawnedRuns(order, stamps)
    IN  /\ dispatched' = dispatched \o stamps
        /\ newest' = [t \in (DOMAIN newest) \cup { order[i] : i \in 1..n } |->
                         IF \E i \in 1..n : order[i] = t
                         THEN LET i == CHOOSE j \in 1..n : order[j] = t
                              IN  [generation |-> spawned[i].generation,
                                   kind |-> spawned[i].kind]
                         ELSE newest[t]]

send_tile_rebuild_tasks_system ==
    /\ frame = SystemsBeforeSend
    /\ can_generate_new_tiles
    /\ \E order \in TilesToGenerate(max_task_count) :
          LET stamps == [i \in 1..Len(order) |-> StampOf(generation_ticker, i)]
          IN  /\ generation_ticker + Len(order) <= MaxGen
              /\ DispatchPass(order, stamps)
              /\ RecordDispatch(order, stamps)
    /\ frame' = {}
    /\ UNCHANGED << max_tile_generation_tasks, worldVars, tile_affectors,
                    affector_relations, nav_mesh, last >>

\* The run condition is false: the system is skipped and the frame ends.
SkipSend ==
    /\ frame = SystemsBeforeSend
    /\ ~can_generate_new_tiles
    /\ frame' = {}
    /\ UNCHANGED << max_tile_generation_tasks, worldVars, tile_affectors,
                    affector_relations, dirty_tiles, generation_ticker,
                    active_generation_tasks, runs, nav_mesh, dispatched, newest, last >>

\* A change of the world, counted against the bound of the model.
Counted(A) ==
    /\ world_changes < MaxWorldChanges
    /\ A
    /\ world_changes' = world_changes + 1
    /\ UNCHANGED << lockVars, colliderVars, callVars >>

\* A step of the plugin or of the task pool.
Step(A) == A /\ UNCHANGED << world_changes, lockVars, colliderVars, callVars >>

Next ==
    \/ \E e \in Entities, b \in Boxes : Counted(AddAffector(e, b))
    \/ \E e \in Entities, b \in Boxes : Counted(MoveAffector(e, b))
    \/ \E e \in Entities : Counted(RemoveAffector(e))
    \/ \E e \in Entities : Counted(Despawn(e))
    \/ Step(remove_finished_tasks)
    \/ Step(handle_removed_affectors_system)
    \/ Step(update_navmesh_affectors_system)
    \/ Step(send_tile_rebuild_tasks_system)
    \/ Step(SkipSend)
    \/ \E r \in runs : Step(CompleteRun(r))

Spec == Init /\ [][Next]_vars

\* ===================================================== direct calls (SpecCore)
\* build_tile and remove_tile called on the tile map with any stamp, as a
\* test of the two functions would: the dispatcher is left out.
Stamps == 0..MaxGen

CallBuild(g, t, geom) ==
    LET r == [kind |-> "build", generation |-> g, tile_coord |-> t, geometry |-> geom]
    IN  /\ nav_mesh' = RunResult(r, nav_mesh)
        /\ last' = Completed(r, nav_mesh)
        /\ UNCHANGED << max_tile_generation_tasks, worldVars, driverVars, runs,
                        world_changes, lockVars, colliderVars, callVars >>

CallRemove(g, t) ==
    LET r == [kind |-> "remove", generation |-> g, tile_coord |-> t, geometry |-> {}]
    IN  /\ nav_mesh' = RunResult(r, nav_mesh)
        /\ last' = Completed(r, nav_mesh)
        /\ UNCHANGED << max_tile_generation_tasks, worldVars, driverVars, runs,
                        world_changes, lockVars, colliderVars, callVars >>

NextCore ==
    \/ \E g \in Stamps, t \in AllTiles, geom \in SUBSET Entities : CallBuild(g, t, geom)
    \/ \E g \in Stamps, t \in AllTiles : CallRemove(g, t)

SpecCore == Init /\ [][NextCore]_vars

\* ======================================================== the lock (SpecLock)
\* build_tile and remove_tile runs going through their critical section one
\* statement at a time, next to a reader of the tile map and to an
\* application thread that panics while it holds the write guard.
LockRuns ==
    { [kind |-> "build", generation |-> g, tile_coord |-> t, geometry |-> geom] :
        g \in 1..MaxLockGen, t \in AllTiles, geom \in SUBSET Entities }
    \cup
    { [kind |-> "remove", generation |-> g, tile_coord |-> t, geometry |-> {}] :
        g \in 1..MaxLockGen, t \in AllTiles }

\* The unit value ().
Unit == << >>

\* What build_tile and remove_tile return to the task that awaits them,
\* whatever happened: they are declared without a return type.
ReturnValue(outcome) == Unit

\* History record of a run that returned.
Finished(r, outcome) ==
    [kind |-> r.kind, tile_coord |-> r.tile_coord, outcome |-> outcome,
     returned |-> ReturnValue(outcome)]

\* Variant: the write guard is dropped once the generation is recorded.
WriteGuardDroppedAfterStamp == writer # NoRun /\ writer.pc = "compare"

\* The write guard `nav_mesh` of a run lives from nav_mesh.write() to the end
\* of the function.
WriteGuardHeld == writer # NoRun

\* Variant: the guard inside the PoisonError is used (PoisonError::into_inner).
write_recovered(is_poisoned) == TRUE

\* `let Ok(mut nav_mesh) = nav_mesh.write()`: RwLock::write returns Err once
\* the lock is poisoned.
write_is_ok(is_poisoned) == ~is_poisoned

\* A run calls nav_mesh.write(): it waits until no guard is held; on Err it
\* logs and returns.
AcquireWrite(r) ==
    /\ ~WriteGuardHeld
    /\ ~reading
    /\ IF write_is_ok(poisoned)
       THEN /\ writer' = [run |-> r, pc |-> "compare"]
            /\ UNCHANGED last
       ELSE /\ writer' = NoRun
            /\ last' = Finished(r, "poisoned")
    /\ UNCHANGED << max_tile_generation_tasks, worldVars, driverVars, runs, nav_mesh,
                    world_changes, reading, poisoned, stamper, colliderVars, callVars >>

\* The comparison of the stamp with the recorded generation, and
\* tile_generations.insert when the stamp is newer; otherwise the function
\* ends and the guard is dropped.
CompareGeneration ==
    /\ writer # NoRun
    /\ writer.pc = "compare"
    /\ LET r == writer.run
       IN  IF RecordedGeneration(nav_mesh, r.tile_coord) < r.generation
           THEN /\ nav_mesh' = [nav_mesh EXCEPT !.tile_generations =
                                   MapInsert(@, r.tile_coord, r.generation)]
                /\ stamper' = MapInsert(stamper, r.tile_coord, r)
                /\ writer' = [writer EXCEPT !.pc = "stamped"]
                /\ UNCHANGED last
           ELSE /\ writer' = NoRun
                /\ last' = Finished(r, "dropped")
                /\ UNCHANGED << nav_mesh, stamper >>
    /\ UNCHANGED << max_tile_generation_tasks, worldVars, driverVars, runs,
                    world_changes, reading, poisoned, colliderVars, callVars >>

\* Variant: the function ends once the generation is recorded, the tile
\* record is left as it was.
GenerationRecordedOnly ==
    /\ writer # NoRun
    /\ writer.pc = "stamped"
    /\ last' = Finished(writer.run, "installed")
    /\ writer' = NoRun
    /\ UNCHANGED << max_tile_generation_tasks, worldVars, driverVars, runs, nav_mesh,
                    world_changes, reading, poisoned, stamper, colliderVars, callVars >>

\* nav_mesh.add_tile or nav_mesh.remove_tile, then the end of the function.
SwapTile ==
    /\ writer # NoRun
    /\ writer.pc = "stamped"
    /\ LET r == writer.run
       IN  /\ nav_mesh' = [nav_mesh EXCEPT !.tiles =
                              IF r.kind = "build"
                              THEN add_tile(@, r.tile_coord, TileRecord(r))
                              ELSE remove_tile_entry(@, r.tile_coord)]
           /\ last' = Finished(r, "installed")
    /\ writer' = NoRun
    /\ UNCHANGED << max_tile_generation_tasks, worldVars, driverVars, runs,
                    world_changes, reading, poisoned, stamper, colliderVars, callVars >>

\* A reader (a path query) takes the read guard of the lock it got from
\* NavMesh::get, and drops it.
ReadAcquire ==
    /\ ~WriteGuardHeld
    /\ ~reading
    /\ ~poisoned
    /\ reading' = TRUE
    /\ UNCHANGED << max_tile_generation_tasks, worldVars, driverVars, runs, nav_mesh,
                    last, world_changes, writer, poisoned, stamper, colliderVars,
                    callVars >>

ReadRelease ==
    /\ reading
    /\ reading' = FALSE
    /\ UNCHANGED << max_tile_generation_tasks, worldVars, driverVars, runs, nav_mesh,
                    last, world_changes, writer, poisoned, stamper, colliderVars,
                    callVars >>

\* A thread of the application that holds the write guard of the lock it got
\* from NavMesh::get panics: the lock is poisoned from then on.
PanicHoldingWriteGuard ==
    /\ ~WriteGuardHeld
    /\ ~reading
    /\ ~poisoned
    /\ poisoned' = TRUE
    /\ UNCHANGED << max_tile_generation_tasks, worldVars, driverVars, runs, nav_mesh,
                    last, world_changes, writer, reading, stamper, colliderVars,
                    callVars >>

NextLock ==
    \/ \E r \in LockRuns : AcquireWrite(r)
    \/ CompareGeneration
    \/ SwapTile
    \/ ReadAcquire
    \/ ReadRelease
    \/ PanicHoldingWriteGuard

SpecLock == Init /\ [][NextLock]_vars

\* =================================================== one pass, by counts (SpecPass)
\* The number of tiles one pass of send_tile_rebuild_tasks_system takes, as a
\* function of the number of active tasks and of dirty tiles, for numbers
\* around u16::MAX that the sets of the other specifications never reach.
CountSamples == (0..MaxSmallCount) \cup ((U16Max - 1)..(U16Max + 2))

\* usize `x - y`: an underflow panics in a build with overflow checks and
\* wraps around in a build without; `below` is then the distance of the
\* wrapped value below 2^64.
usize_sub(x, y) ==
    IF x >= y
    THEN { [panic |-> FALSE, wrapped |-> FALSE, value |-> x - y] }
    ELSE { [panic |-> TRUE,  wrapped |-> FALSE, value |-> 0],
           [panic |-> FALSE, wrapped |-> TRUE,  value |-> y - x] }

\* max_task_count for a given number of active tasks.
max_task_count_for(active_len) ==
    usize_sub(unwrap_or(max_tile_generation_tasks, U16Max), active_len)

\* dirty_tiles.0.iter().take(max_task_count) for a given number of dirty
\* tiles: a wrapped count exceeds any number of tiles.
take_len(dirty_len, count) ==
    IF count.wrapped THEN dirty_len ELSE Min(dirty_len, count.value)

\* can_generate_new_tiles for given numbers.
can_generate_for(active_len, dirty_len) ==
    /\ \A max \in max_tile_generation_tasks : active_len < max
    /\ dirty_len # 0

InitPass ==
    /\ InitResources /\ InitLock /\ InitColliders
    /\ args \in [active_len : CountSamples, dirty_len : CountSamples]
    /\ result = << >>

\* The pass runs: the tiles it takes are dispatched.
CallPass ==
    /\ result = << >>
    /\ can_generate_for(args.active_len, args.dirty_len)
    /\ \E count \in max_task_count_for(args.active_len) :
          result' = IF count.panic
                    THEN [outcome |-> "panic", taken |-> 0, underflow |-> TRUE]
                    ELSE [outcome |-> "dispatched",
                          taken |-> take_len(args.dirty_len, count),
                          underflow |-> count.wrapped]
    /\ UNCHANGED << max_tile_generation_tasks, worldVars, driverVars, runs, nav_mesh,
                    last, world_changes, lockVars, colliderVars, args >>

\* The run condition is false: the pass is skipped.
CallSkipped ==
    /\ result = << >>
    /\ ~can_generate_for(args.active_len, args.dirty_len)
    /\ result' = [outcome |-> "skipped", taken |-> 0, underflow |-> FALSE]
    /\ UNCHANGED << max_tile_generation_tasks, worldVars, driverVars, runs, nav_mesh,
                    last, world_changes, lockVars, colliderVars, args >>

NextPass == CallPass \/ CallSkipped

SpecPass == InitPass /\ [][NextPass]_vars

\* ============================================== gathering geometry (SpecGather)
\* The dispatch of tiles whose affectors carry colliders of several shapes,
\* with and without a NavMeshAreaType: the world only adds affectors.
GatherShapes == {"Cuboid", "HeightField"} \cup UnsupportedShapes

\* The NavMeshAreaType an entity may carry: none, or one holding None or Some(a).
AreaTypes == {None, Some(None)} \cup { Some(Some(a)) : a \in 0..MaxArea }

InitGather ==
    /\ InitResources /\ InitLock /\ InitCall
    /\ shape \in [Entities -> GatherShapes]
    /\ area_type \in [Entities -> AreaTypes]

NextGather ==
    \/ \E e \in Entities, b \in Boxes : Counted(AddAffector(e, b))
    \/ Step(remove_finished_tasks)
    \/ Step(handle_removed_affectors_system)
    \/ Step(update_navmesh_affectors_system)
    \/ Step(send_tile_rebuild_tasks_system)
    \/ Step(SkipSend)

SpecGather == InitGather /\ [][NextGather]_vars

\* ============================================= the math helpers (SpecIntersect)
\* The integer primitives at the end of lib.rs, called directly.  A point is
\* the x and z of an IVec4.  An i32 product of two coordinate differences
\* does not fit the integers of the model checker, so the exact value of
\* area_sqr is kept as a pair h, l standing for h * 2^16 + l, 0 <= l < 2^16.
Limb == 65536

Wide(h, l) == [h |-> h + (l \div Limb), l |-> l % Limb]

\* x * y, exactly, for factors below 2^18 in absolute value.
wide_mul(x, y) ==
    LET yh == y \div 512
        yl == y % 512
        hi == x * yh
        lo == x * yl
    IN  Wide(hi \div 128, (hi % 128) * 512 + lo)

wide_sub(p, q) == Wide(p.h - q.h, p.l - q.l)

\* The value fits an i32, and the i32 a wrapping operation leaves.
fits_i32(w) == -(Limb \div 2) <= w.h /\ w.h < Limb \div 2
wrap_i32(w) ==
    LET hs == w.h % Limb
    IN  (IF hs >= Limb \div 2 THEN hs - Limb ELSE hs) * Limb + w.l

wide_sign(w) == IF w.h < 0 THEN -1 ELSE IF w.h = 0 /\ w.l = 0 THEN 0 ELSE 1

\* The mathematical value of the expression of area_sqr.
area_exact(a, b, c) ==
    wide_sub(wide_mul(b.x - a.x, c.z - a.z), wide_mul(c.x - a.x, b.z - a.z))

\* One of the i32 operations of area_sqr overflows: a panic in a build with
\* overflow checks.
area_sqr_overflows(a, b, c) ==
    \/ ~fits_i32(wide_mul(b.x - a.x, c.z - a.z))
    \/ ~fits_i32(wide_mul(c.x - a.x, b.z - a.z))
    \/ ~fits_i32(area_exact(a, b, c))

\* area_sqr, in i32 arithmetic that wraps around.
area_sqr(a, b, c) == wrap_i32(area_exact(a, b, c))

collinear(a, b, c) == area_sqr(a, b, c) = 0
left(a, b, c) == area_sqr(a, b, c) < 0
left_on(a, b, c) == area_sqr(a, b, c) <= 0

xor(p, q) == p # q

intersect_prop(a, b, c, d) ==
    IF collinear(a, b, c) \/ collinear(a, b, d) \/ collinear(c, d, a) \/ collinear(c, d, b)
    THEN FALSE
    ELSE xor(left(a, b, c), left(a, b, d)) /\ xor(left(c, d, a), left(c, d, b))

\* Variant: c is looked for from a towards b only.
between_ascending(a, b, c) ==
    IF ~collinear(a, b, c) THEN FALSE
    ELSE IF a.x # b.x
    THEN a.x <= c.x /\ c.x <= b.x
    ELSE a.z <= c.z /\ c.z <= b.z

between(a, b, c) ==
    IF ~collinear(a, b, c) THEN FALSE
    ELSE IF a.x # b.x
    THEN (a.x <= c.x /\ c.x <= b.x) \/ (a.x >= c.x /\ c.x >= b.x)
    ELSE (a.z <= c.z /\ c.z <= b.z) \/ (a.z >= c.z /\ c.z >= b.z)

\* Variant: only proper crossings count.
intersect_proper_only(a, b, c, d) == intersect_prop(a, b, c, d)

intersect(a, b, c, d) ==
    \/ intersect_prop(a, b, c, d)
    \/ between(a, b, c)
    \/ between(a, b, d)
    \/ between(c, d, a)
    \/ between(c, d, b)

\* The points of the grid the segments are drawn on.
GridPoints == [x : 0..MaxCoord, z : 0..MaxCoord]

InitIntersect ==
    /\ InitResources /\ InitLock /\ InitColliders
    /\ max_tile_generation_tasks = None
    /\ args \in [a : GridPoints, b : GridPoints, c : GridPoints, d : GridPoints]
    /\ result = << >>

CallIntersect ==
    /\ result = << >>
    /\ result' = [value |-> intersect(args.a, args.b, args.c, args.d)]
    /\ UNCHANGED << max_tile_generation_tasks, worldVars, driverVars, runs, nav_mesh,
                    last, world_changes, lockVars, colliderVars, args >>

NextIntersect == CallIntersect

SpecIntersect == InitIntersect /\ [][NextIntersect]_vars

\* ================================================ diagonal in cone (SpecCone)
\* in_cone called with every vertex index, outline and point of the grid.
\* outline_vertices[k] of the code is outline_vertices[k + 1] here.
in_cone(i, outline_vertices, point) ==
    LET len == Len(outline_vertices)
        point_i == outline_vertices[i + 1]
        point_next == outline_vertices[((i + 1) % len) + 1]
        point_previous == outline_vertices[((len + i - 1) % len) + 1]
    IN  IF left_on(point_i, point, point_next)
        THEN left(point_i, point, point_previous) /\ left(point, point_i, point_next)
        ELSE /\ ~left_on(point_i, point, point_next)
             /\ left_on(point, point_i, point_previous)

InitCone ==
    /\ InitResources /\ InitLock /\ InitColliders
    /\ max_tile_generation_tasks = None
    /\ args \in [i : 0..(OutlineLen - 1),
                 outline_vertices : [1..OutlineLen -> GridPoints],
                 point : GridPoints]
    /\ result = << >>

CallInCone ==
    /\ result = << >>
    /\ result' = [value |-> in_cone(args.i, args.outline_vertices, args.point)]
    /\ UNCHANGED << max_tile_generation_tasks, worldVars, driverVars, runs, nav_mesh,
                    last, world_changes, lockVars, colliderVars, args >>

NextCone == CallInCone

SpecCone == InitCone /\ [][NextCone]_vars

\* ============================================ Main throttled (SpecThrottle)
\* The application may give the set OxidizedNavigation::Main a run condition.
\* In a frame where it is false the Main systems are passed over, their
\* Changed<..> filters stay pending, and handle_removed_affectors_system, of
\* the set RemovedComponent, runs all the same.
MainSystems == {"remove_finished_tasks", "update_navmesh_affectors_system"}

ThrottleMain ==
    /\ frame = {}
    /\ frame' = MainSystems \cup {"Main throttled"}
    /\ UNCHANGED << max_tile_generation_tasks, worldVars, tile_affectors,
                    affector_relations, dirty_tiles, generation_ticker,
                    active_generation_tasks, runs, nav_mesh, dispatched, newest, last >>

\* The end of a frame in which Main was throttled.
EndThrottledFrame ==
    /\ frame = SystemsBeforeSend \cup {"Main throttled"}
    /\ frame' = {}
    /\ UNCHANGED << max_tile_generation_tasks, worldVars, tile_affectors,
                    affector_relations, dirty_tiles, generation_ticker,
                    active_generation_tasks, runs, nav_mesh, dispatched, newest, last >>

NextThrottle ==
    \/ \E e \in Entities, b \in Boxes : Counted(AddAffector(e, b))
    \/ \E e \in Entities, b \in Boxes : Counted(MoveAffector(e, b))
    \/ \E e \in Entities : Counted(RemoveAffector(e))
    \/ \E e \in Entities : Counted(Despawn(e))
    \/ Step(ThrottleMain)
    \/ Step(remove_finished_tasks)
    \/ Step(handle_removed_affectors_system)
    \/ Step(update_navmesh_affectors_system)
    \/ Step(send_tile_rebuild_tasks_system)
    \/ Step(SkipSend)
    \/ Step(EndThrottledFrame)
    \/ \E r \in runs : Step(CompleteRun(r))

SpecThrottle == Init /\ [][NextThrottle]_vars

\* ================================================= orientation tests (SpecArea)
\* area_sqr and the tests built on it, called on vertices of a tile as large
\* as the 16-bit settings allow.
\* NavMeshSettings::get_tile_side_with_border
get_tile_side_with_border == tile_width + walkable_radius * 2

\* get_tile_side_with_border for the largest tile_width and walkable_radius.
MaxTileSide == U16Max + U16Max * 2

\* The vertex coordinates area_sqr is tried with.
CoordSamples == {0, 1, get_tile_side_with_border, U16Max, MaxTileSide}

SamplePoints == [x : CoordSamples, z : CoordSamples]

InitArea ==
    /\ InitResources /\ InitLock /\ InitColliders
    /\ max_tile_generation_tasks = None
    /\ args \in [a : SamplePoints, b : SamplePoints, c : SamplePoints]
    /\ result = << >>

\* area_sqr returns, and collinear, left and left_on compare what it returned.
CallAreaSqr ==
    /\ result = << >>
    /\ result' = [panic |-> FALSE,
                  value |-> area_sqr(args.a, args.b, args.c),
                  collinear |-> collinear(args.a, args.b, args.c),
                  left |-> left(args.a, args.b, args.c),
                  left_on |-> left_on(args.a, args.b, args.c)]
    /\ UNCHANGED << max_tile_generation_tasks, worldVars, driverVars, runs, nav_mesh,
                    last, world_changes, lockVars, colliderVars, args >>

\* Built with overflow checks, area_sqr panics when an operation overflows.
PanicAreaSqr ==
    /\ result = << >>
    /\ area_sqr_overflows(args.a, args.b, args.c)
    /\ result' = [panic |-> TRUE, value |-> 0, collinear |-> FALSE, left |-> FALSE,
                  left_on |-> FALSE]
    /\ UNCHANGED << max_tile_generation_tasks, worldVars, driverVars, runs, nav_mesh,
                    last, world_changes, lockVars, colliderVars, args >>

NextArea == CallAreaSqr \/ PanicAreaSqr

SpecArea == InitArea /\ [][NextArea]_vars

\* ============================================ cell neighbours (SpecNeighbour)
\* get_neighbour_index called on the cells of a tile, a row-major grid of
\* side get_tile_side_with_border, then called again in the opposite
\* direction on the index it returned.
\* A usize result that is neither a panic nor wrapped.
usize_ok(n) == { [panic |-> FALSE, wrapped |-> FALSE, value |-> n] }

\* Variant: directions 1 and 3 exchanged.
get_neighbour_index_flipped(index, dir) ==
    CASE dir = 0 -> usize_sub(index, 1)
      [] dir = 1 -> usize_sub(index, get_tile_side_with_border)
      [] dir = 2 -> usize_ok(index + 1)
      [] dir = 3 -> usize_ok(index + get_tile_side_with_border)
      [] OTHER   -> { [panic |-> TRUE, wrapped |-> FALSE, value |-> 0] }

\* get_neighbour_index: the set of outcomes of the call (one, or a panic and
\* a wrapped value where the subtraction underflows).
get_neighbour_index(index, dir) ==
    CASE dir = 0 -> usize_sub(index, 1)
      [] dir = 1 -> usize_ok(index + get_tile_side_with_border)
      [] dir = 2 -> usize_ok(index + 1)
      [] dir = 3 -> usize_sub(index, get_tile_side_with_border)
      [] OTHER   -> { [panic |-> TRUE, wrapped |-> FALSE, value |-> 0] }

\* The indexes of the cells of a tile.
CellIndexes == 0..(get_tile_side_with_border * get_tile_side_with_border - 1)

InitNeighbour ==
    /\ InitResources /\ InitLock /\ InitColliders
    /\ max_tile_generation_tasks = None
    /\ args \in [index : CellIndexes, dir : 0..3]
    /\ result = << >>

\* The call, and the call back from the neighbour in direction (dir + 2) % 4.
CallNeighbour ==
    /\ result = << >>
    /\ \E there \in get_neighbour_index(args.index, args.dir) :
          IF there.panic \/ there.wrapped
          THEN result' = [panic |-> there.panic, wrapped |-> there.wrapped,
                          neighbour |-> there.value, back |-> there.value]
          ELSE \E back \in get_neighbour_index(there.value, (args.dir + 2) % 4) :
                  result' = [panic |-> back.panic, wrapped |-> back.wrapped,
                             neighbour |-> there.value, back |-> back.value]
    /\ UNCHANGED << max_tile_generation_tasks, worldVars, driverVars, runs, nav_mesh,
                    last, world_changes, lockVars, colliderVars, args >>

NextNeighbour == CallNeighbour

SpecNeighbour == InitNeighbour /\ [][NextNeighbour]_vars

\* ================================================ tile of a position (SpecTile)
\* The grid arithmetic on f32 world positions.  An f32 is held as a whole
\* number of quanta of 2^-23; f32 values finer than one quantum are left out.
One == 8388608

\* f32::from of a whole number.
F32(n) == n * One

Abs(n) == IF n < 0 THEN 0 - n ELSE n

\* The binary exponent of n >= 1.
Exponent(n) == CHOOSE e \in 0..30 : n \div (2 ^ e) = 1

\* The nearest f32 (24 significant bits, ties to even) to n quanta.
f32_round(n) ==
    LET mag == Abs(n)
    IN  IF mag < 2 ^ 24 THEN n
        ELSE LET ulp == 2 ^ (Exponent(mag) - 23)
                 q == mag \div ulp
                 r == mag % ulp
                 up == (2 * r > ulp) \/ (2 * r = ulp /\ q % 2 = 1)
                 v == (IF up THEN q + 1 ELSE q) * ulp
             IN  IF n < 0 THEN 0 - v ELSE v

f32_add(a, b) == f32_round(a + b)

f32_sub(a, b) == f32_round(a - b)

\* The f32 product of the whole number n and b.
f32_mul_whole(n, b) == f32_round(n * b)

\* (a / b) as u32: the f32 quotient of a by b > 0, then the saturating
\* truncation.  The quotient of a >= 0 rounds up to the next whole number when
\* it lies within half an ulp of it.
f32_div_as_u32(a, b) ==
    IF a < 0 THEN 0
    ELSE LET q0 == a \div b
             r == a % b
             half_ulp_inv == IF q0 = 0 THEN 2 ^ 25 ELSE 2 ^ (24 - Exponent(q0))
         IN  IF r # 0 /\ (b - r) <= b \div half_ulp_inv THEN q0 + 1 ELSE q0

\* NavMeshSettings::get_tile_size, in f32.
get_tile_size_f32 == f32_mul_whole(cell_width, F32(tile_width))

\* NavMeshSettings::get_tile_containing_position, in f32.
get_tile_containing_position_f32(world_position) ==
    LET offset_world == [x |-> f32_add(world_position.x, F32(world_half_extents)),
                         z |-> f32_add(world_position.z, F32(world_half_extents))]
    IN  [x |-> f32_div_as_u32(offset_world.x, get_tile_size_f32),
         y |-> f32_div_as_u32(offset_world.z, get_tile_size_f32)]

\* NavMeshSettings::get_tile_origin
get_tile_origin(tile) ==
    [x |-> f32_sub(f32_mul_whole(tile.x, get_tile_size_f32), F32(world_half_extents)),
     z |-> f32_sub(f32_mul_whole(tile.y, get_tile_size_f32), F32(world_half_extents))]

\* NavMeshSettings::get_tile_bounds
get_tile_bounds(tile) ==
    LET tile_size == get_tile_size_f32
        min_bound == [x |-> f32_sub(f32_mul_whole(tile.x, tile_size),
                                    F32(world_half_extents)),
                      z |-> f32_sub(f32_mul_whole(tile.y, tile_size),
                                    F32(world_half_extents))]
        max_bound == [x |-> f32_add(min_bound.x, tile_size),
                      z |-> f32_add(min_bound.z, tile_size)]
    IN  [min |-> min_bound, max |-> max_bound]

\* Distances, in quanta, of the sampled coordinates from a tile boundary.
NearOffsets == {-8, -4, -2, -1, 0, 1, 2, 4, 8}

\* The f32 coordinates in [-world_half_extents, world_half_extents) that
\* positions are drawn from: near each tile boundary, and inside each tile.
PositionSamples ==
    { v \in { F32(t * tile_width - world_half_extents) + d :
                  t \in 0..2, d \in NearOffsets }
            \cup { F32(-3), F32(3) + One \div 2 } :
        /\ f32_round(v) = v
        /\ F32(-world_half_extents) <= v
        /\ v < F32(world_half_extents) }

InitTile ==
    /\ InitResources /\ InitLock /\ InitColliders
    /\ max_tile_generation_tasks = None
    /\ args \in [x : PositionSamples, z : PositionSamples]
    /\ result = << >>

\* One call of get_tile_containing_position, then get_tile_bounds and
\* get_tile_origin of the tile it returned.
CallTileContaining ==
    /\ result = << >>
    /\ LET tile == get_tile_containing_position_f32(args)
       IN  result' = [tile |-> tile,
                      bounds |-> get_tile_bounds(tile),
                      origin |-> get_tile_origin(tile)]
    /\ UNCHANGED << max_tile_generation_tasks, worldVars, driverVars, runs, nav_mesh,
                    last, world_changes, lockVars, colliderVars, args >>

NextTile == CallTileContaining

SpecTile == InitTile /\ [][NextTile]_vars

\* ======================================================== dispatch (SpecLive)
\* The dispatch of dirty tiles over an unbounded run of frames.  To keep the
\* state space finite the stamps come from a ring of RingSize values, a value
\* being reissued only when no task carries it (a pass that finds none free
\* is put off to a later frame), and the histories are not kept.  The stamps
\* of this specification are names of tasks, and the tile map is left out.
RingStamp(base, i) == ((base + i - 1) % RingSize) + 1

StampsInUse == active_generation_tasks \cup { r.generation : r \in runs }

RingFree(order) ==
    /\ Len(order) <= RingSize
    /\ \A i \in 1..Len(order) : RingStamp(generation_ticker, i) \notin StampsInUse

send_tile_rebuild_tasks_ring ==
    /\ frame = SystemsBeforeSend
    /\ can_generate_new_tiles
    /\ \E order \in TilesToGenerate(max_task_count) :
          /\ RingFree(order)
          /\ DispatchPass(order, [i \in 1..Len(order) |-> RingStamp(generation_ticker, i)])
    /\ frame' = {}
    /\ UNCHANGED << max_tile_generation_tasks, worldVars, tile_affectors,
                    affector_relations, nav_mesh, last, dispatched, newest >>

\* No stamp of the ring is free: the pass is put off to a later frame.
PostponeSend ==
    /\ frame = SystemsBeforeSend
    /\ can_generate_new_tiles
    /\ \A order \in TilesToGenerate(max_task_count) : ~RingFree(order)
    /\ frame' = {}
    /\ UNCHANGED << max_tile_generation_tasks, worldVars, tile_affectors,
                    affector_relations, dirty_tiles, generation_ticker,
                    active_generation_tasks, runs, nav_mesh, dispatched, newest, last >>

SendStep == send_tile_rebuild_tasks_ring \/ SkipSend \/ PostponeSend

\* The task stamped g finishes; its effect on the tile map is left out.
FinishTask(g) ==
    /\ \E r \in runs : r.generation = g /\ runs' = runs \ {r}
    /\ UNCHANGED << max_tile_generation_tasks, worldVars, driverVars, nav_mesh, last >>

\* The entities that move in this specification.
LiveEntities == 1..NumLiveEntities

\* The caps the dispatch specification starts from.
LiveCaps == {None} \cup { Some(n) : n \in 0..MaxLiveCap }

InitLive == Init /\ max_tile_generation_tasks \in LiveCaps

\* A change of the world made by the application between two frames of the
\* plugin's systems.
BetweenFrames(A) == frame = {} /\ Step(A)

NextLive ==
    \/ \E e \in LiveEntities, b \in Boxes : BetweenFrames(AddAffector(e, b))
    \/ \E e \in LiveEntities, b \in Boxes : BetweenFrames(MoveAffector(e, b))
    \/ \E e \in LiveEntities : BetweenFrames(RemoveAffector(e))
    \/ \E e \in LiveEntities : BetweenFrames(Despawn(e))
    \/ Step(remove_finished_tasks)
    \/ Step(handle_removed_affectors_system)
    \/ Step(update_navmesh_affectors_system)
    \/ Step(send_tile_rebuild_tasks_ring)
    \/ Step(SkipSend)
    \/ Step(PostponeSend)
    \/ \E g \in 1..RingSize : Step(FinishTask(g))

\* Frames keep running: each system of the schedule runs when it is its turn;
\* every task spawned on the pool finishes.
Fairness ==
    /\ WF_vars(Step(remove_finished_tasks))
    /\ WF_vars(Step(handle_removed_affectors_system))
    /\ WF_vars(Step(update_navmesh_affectors_system))
    /\ WF_vars(Step(SendStep))
    /\ \A g \in 1..RingSize : WF_vars(Step(FinishTask(g)))

SpecLive == InitLive /\ [][NextLive]_vars /\ Fairness

\* ==================================================================== claims
InFlight(t) == { r \in runs : r.tile_coord = t }
Range(f) == { f[i] : i \in DOMAIN f }

\* C1: for every tile coordinate all of whose dispatched runs have completed,
\* in whatever order, the tile map holds the result of the run with the
\* highest stamp: the record it built if it was a build, no entry if it was a
\* removal.
C1_HighestStampWins ==
    \A t \in DOMAIN newest :
        InFlight(t) = {} =>
            IF newest[t].kind = "build"
            THEN /\ t \in DOMAIN nav_mesh.tiles
                 /\ nav_mesh.tiles[t].built_by = newest[t].generation
            ELSE t \notin DOMAIN nav_mesh.tiles

\* An older build completed after a newer run of its tile, every run of the
\* tile is done, and the tile holds the record of the newest run.
C1_Witness ==
    /\ last.kind = "build"
    /\ last.stamp = "older"
    /\ InFlight(last.tile_coord) = {}
    /\ last.tile_coord \in DOMAIN nav_mesh.tiles

\* C2: the generation recorded for a tile coordinate never decreases from one
\* step to the next, over any interleaving of completing runs.
C2_GenerationMonotonic ==
    [][\A t \in AllTiles :
          RecordedGeneration(nav_mesh, t) <= RecordedGeneration(nav_mesh', t)]_vars

\* A removal completed after a newer run of its tile had recorded its stamp.
C2_Witness ==
    /\ last.kind = "remove"
    /\ last.stamp = "older"
    /\ RecordedGeneration(nav_mesh, last.tile_coord) >= 2

\* The effect the claim C3 ascribes to a call that is applied.
BuildApplied(g, t, geom) ==
    /\ RecordedGeneration(nav_mesh', t) = g
    /\ TileAt(nav_mesh', t) = [built_by |-> g, geometry |-> geom]

RemoveApplied(g, t) ==
    /\ RecordedGeneration(nav_mesh', t) = g
    /\ TileAt(nav_mesh', t) = NoTile

C5_RemovalIdempotent ==
    [][\A g \in Stamps, t \in DOMAIN nav_mesh.tile_generations :
          (/\ t \notin DOMAIN nav_mesh.tiles
           /\ g <= nav_mesh.tile_generations[t]
           /\ CallRemove(g, t))
              => /\ t \notin DOMAIN nav_mesh'.tiles
                 /\ t \in DOMAIN nav_mesh'.tile_generations
                 /\ nav_mesh'.tile_generations[t] = nav_mesh.tile_generations[t]]_vars

\* A removal with an equal stamp followed the removal of a tile.
C5_Witness ==
    /\ last.kind = "remove"
    /\ last.stamp = "equal"
    /\ last.tile_coord \in DOMAIN nav_mesh.tile_generations
    /\ last.tile_coord \notin DOMAIN nav_mesh.tiles

\* C4: a run that completes with a stamp older than the generation recorded
\* for its tile leaves the whole tile map as it was: the records and the
\* recorded generations of its own and of every other coordinate.
C4_StaleRunDiscarded ==
    [][\A r \in runs :
          (CompleteRun(r) /\ r.generation < RecordedGeneration(nav_mesh, r.tile_coord))
              => nav_mesh' = nav_mesh]_vars

\* A stale run completed while the map held records of two coordinates.
C4_Witness ==
    /\ last.kind # "none"
    /\ last.stamp = "older"
    /\ Cardinality(DOMAIN nav_mesh.tile_generations) >= 2

\* C6: stamps are issued at dispatch: they are at least 1 and strictly
\* increasing in dispatch order, no two runs carry the same stamp, a run in
\* flight carries a stamp the ticker has already passed, and the generation
\* recorded for a tile is never newer than the newest run dispatched for it.
C6_StampsIssuedAtDispatch ==
    /\ \A i \in DOMAIN dispatched : dispatched[i] >= 1
    /\ \A i, j \in DOMAIN dispatched : i < j => dispatched[i] < dispatched[j]
    /\ \A r \in runs : r.generation \in Range(dispatched) /\ r.generation <= generation_ticker
    /\ \A r1, r2 \in runs : r1.generation = r2.generation => r1 = r2
    /\ \A t \in DOMAIN nav_mesh.tile_generations :
          /\ t \in DOMAIN newest
          /\ nav_mesh.tile_generations[t] <= newest[t].generation

\* Three runs were dispatched, and one still in flight was stamped before the
\* ticker moved on.
C6_Witness ==
    /\ Len(dispatched) >= 3
    /\ \E r \in runs : r.generation < generation_ticker

\* C7: with max_tile_generation_tasks = Some(n), ActiveGenerationTasks never
\* holds more than n tasks.
C7_ActiveTasksCapped ==
    \A n \in max_tile_generation_tasks : Cardinality(active_generation_tasks) <= n

\* The cap is reached with tiles still waiting, after more than one pass.
C7_Witness ==
    /\ max_tile_generation_tasks = Some(2)
    /\ Cardinality(active_generation_tasks) = 2
    /\ dirty_tiles # {}
    /\ \E g \in active_generation_tasks : g + 1 \in active_generation_tasks /\ is_finished(g)

\* The tiles an entity covers: the tile rectangle of its expanded AABB while
\* it is an affector, none otherwise.
Covered(e) == IF entState[e] = "affector" THEN TileRect(box[e]) ELSE {}

\* Every change of the world has been seen by the systems, and every run
\* dispatched for the tile has completed, none waiting in the dirty set.
Settled(t) ==
    /\ changed = {}
    /\ removed = {}
    /\ t \notin dirty_tiles
    /\ InFlight(t) = {}

\* C8: once a tile has no affecting geometry left (its affectors moved out,
\* lost their NavMeshAffector or were despawned) and every run dispatched
\* for it has completed, the tile map holds no entry for its coordinate.
C8_NoGeometryNoTile ==
    \A t \in AllTiles :
        ((\A e \in Entities : t \notin Covered(e)) /\ Settled(t))
            => t \notin DOMAIN nav_mesh.tiles

\* The tiles whose affector set holds the entity.
AffectedTiles(ta, e) == { t \in DOMAIN ta : e \in ta[t] }

\* C9: when update_navmesh_affectors_system handles a changed affector,
\* every tile of its relation (the tiles it covered before) and every tile
\* of its new rectangle is dirty afterwards, and the entity is in the
\* affector set of exactly the tiles it now covers.
C9_ChangedAffectorTracked ==
    [][update_navmesh_affectors_system =>
          \A e \in ChangedAffectors :
              /\ (IF e \in DOMAIN affector_relations THEN affector_relations[e] ELSE {})
                     \subseteq dirty_tiles'
              /\ TileRect(box[e]) \subseteq dirty_tiles'
              /\ AffectedTiles(tile_affectors', e) = TileRect(box[e])]_vars

\* C10: with a cap of at least one task, or none, every dirty tile
\* is eventually handed to a run; the cap only delays it, even while other
\* tiles keep being marked dirty.
C10_DirtyTileDispatched ==
    \A t \in AllTiles :
        (t \in dirty_tiles /\ Some(0) # max_tile_generation_tasks)
            ~> (t \notin dirty_tiles)

\* What a reader finds for coordinate t agrees with the run that recorded
\* the generation of t: its stamp, and its tile record or the absence of one.
RecordMatchesStamp(t) ==
    t \in DOMAIN stamper =>
        /\ RecordedGeneration(nav_mesh, t) = stamper[t].generation
        /\ TileAt(nav_mesh, t) = IF stamper[t].kind = "build"
                                 THEN TileRecord(stamper[t]) ELSE NoTile

\* C11: a reader holding the read guard never finds a coordinate whose
\* recorded generation is a run's stamp while the tile record is still the
\* one from before that run.
C11_InstallAtomicForReaders ==
    reading => \A t \in AllTiles : RecordMatchesStamp(t)

\* A reader holds the guard after a run replaced the record of an earlier run.
C11_Witness ==
    /\ reading
    /\ last # NoRun
    /\ last.outcome = "installed"
    /\ \E t \in DOMAIN stamper : stamper[t].generation >= 2 /\ stamper[t].kind = "build"

\* C12: once the lock is poisoned, a run that tries to take the write guard
\* changes neither the tile map nor a recorded generation and returns; the
\* lock stays poisoned, so every later run does the same.
C12_PoisonedRunChangesNothing ==
    [][poisoned =>
          /\ nav_mesh' = nav_mesh
          /\ poisoned'
          /\ writer' = NoRun
          /\ last' # last => last'.outcome = "poisoned" /\ last'.returned = Unit]_vars

\* A run returned from a poisoned lock that guards a map holding a tile.
C12_Witness ==
    /\ poisoned
    /\ last # NoRun
    /\ last.outcome = "poisoned"
    /\ nav_mesh.tiles # EmptyMap

\* C13: a run that failed on the poisoned lock returns something else than a
\* run that installed its result.
C13_PoisonSurfacedToCaller ==
    (last # NoRun /\ last.outcome = "poisoned") =>
        last.returned # ReturnValue("installed")

\* C14: with max_tile_generation_tasks = None a pass dispatches every dirty
\* tile, whatever the number of dirty tiles and of active tasks, and the
\* number of tiles to take is computed without underflow.
C14_NoCapTakesEveryTile ==
    (result # << >> /\ max_tile_generation_tasks = None /\ args.dirty_len # 0) =>
        /\ result.outcome = "dispatched"
        /\ result.taken = args.dirty_len
        /\ ~result.underflow

\* C15: every run that completes with a stamp older than the recorded
\* generation adds one to the number of dropped writes the core records.
C15_DroppedWriteCounted ==
    [][\A r \in runs :
          (CompleteRun(r) /\ r.generation < RecordedGeneration(nav_mesh, r.tile_coord))
              => DroppedWritesRecorded(nav_mesh') = DroppedWritesRecorded(nav_mesh) + 1]_vars

\* The entities whose geometry a run carries.
GatheredEntities(r) ==
    { g.entity : g \in r.geometry.geometry_collections }
        \cup { h.entity : h \in r.geometry.heightfield_collections }

\* C16: a pass dispatches a run for every tile it takes, as many tiles as
\* the cap allows, and the run of a tile with affectors carries the geometry
\* of each of its affectors but the ones with an unsupported collider.
C16_UnsupportedColliderSkipped ==
    [][generation_ticker' # generation_ticker =>
          LET taken == dirty_tiles \ dirty_tiles'
          IN  /\ Cardinality(taken) = Min(Cardinality(dirty_tiles), max_task_count)
              /\ \A t \in taken :
                    \E r \in runs' \ runs :
                        /\ r.tile_coord = t
                        /\ (t \in DOMAIN tile_affectors /\ tile_affectors[t] # {}) =>
                              /\ r.kind = "build"
                              /\ GatheredEntities(r) =
                                    { e \in tile_affectors[t] :
                                        shape[e] \notin UnsupportedShapes }]_vars

\* One pass dispatched two tiles; the run of one carries the geometry of one
\* affector and not the unsupported collider of the other affector of the tile.
C16_Witness ==
    /\ Cardinality(runs) >= 2
    /\ \E r \in runs :
          /\ r.kind = "build"
          /\ Cardinality(GatheredEntities(r)) = 1
          /\ \E e \in tile_affectors[r.tile_coord] :
                shape[e] \in UnsupportedShapes /\ entState[e] = "affector"

\* C20: the area of every piece of geometry a run carries is the value of
\* the entity's NavMeshAreaType when it has one, and Some(0) when it has none.
C20_AreaTagFromComponent ==
    \A r \in runs :
        \A g \in r.geometry.geometry_collections \cup r.geometry.heightfield_collections :
            /\ area_type[g.entity] = None => g.area = Some(0)
            /\ \A v \in area_type[g.entity] : g.area = v

\* A run carries the geometry of an entity without NavMeshAreaType next to
\* that of an entity whose NavMeshAreaType holds None.
C20_Witness ==
    \E r \in runs :
        \E g, h \in r.geometry.geometry_collections \cup r.geometry.heightfield_collections :
            /\ area_type[g.entity] = None /\ g.area = Some(0)
            /\ area_type[h.entity] = Some(None) /\ h.area = None

\* The closed segments ab and cd share a point of the plane.  Segments that
\* are not parallel meet where the parameters s and t of the common point of
\* their lines, s = sn / den along ab and t = tn / den along cd, are both in
\* [0, 1]; parallel segments, and segments that are single points, can only
\* share a point of the grid.
Cross(u, v) == u.x * v.z - u.z * v.x
Diff(p, q) == [x |-> p.x - q.x, z |-> p.z - q.z]
InUnitRange(n, den) == IF den > 0 THEN 0 <= n /\ n <= den ELSE den <= n /\ n <= 0

OnSegment(a, b, p) ==
    /\ Cross(Diff(b, a), Diff(p, a)) = 0
    /\ (a.x <= p.x /\ p.x <= b.x) \/ (b.x <= p.x /\ p.x <= a.x)
    /\ (a.z <= p.z /\ p.z <= b.z) \/ (b.z <= p.z /\ p.z <= a.z)

SegmentsMeet(a, b, c, d) ==
    LET den == Cross(Diff(b, a), Diff(d, c))
        sn  == Cross(Diff(c, a), Diff(d, c))
        tn  == Cross(Diff(c, a), Diff(b, a))
    IN  IF den # 0
        THEN InUnitRange(sn, den) /\ InUnitRange(tn, den)
        ELSE \E p \in GridPoints : OnSegment(a, b, p) /\ OnSegment(c, d, p)

\* C17 as claimed: for all points of the grid, segments that are single
\* points included, intersect is true exactly when the closed segments ab
\* and cd share a point.
C17_IntersectExact ==
    result # << >> =>
        (result.value <=> SegmentsMeet(args.a, args.b, args.c, args.d))

\* C17 as amended: for all points of the grid with a # b and c # d,
\* intersect is true exactly when the closed segments ab and cd share a point.
C17_IntersectExactOnSegments ==
    (result # << >> /\ args.a # args.b /\ args.c # args.d) =>
        (result.value <=> SegmentsMeet(args.a, args.b, args.c, args.d))

\* intersect was called on two segments that only touch: an end of cd lies
\* inside ab.
C17_Witness ==
    /\ result # << >>
    /\ result.value
    /\ args.a # args.b /\ args.c # args.d
    /\ ~intersect_prop(args.a, args.b, args.c, args.d)
    /\ args.c \notin {args.a, args.b}
    /\ OnSegment(args.a, args.b, args.c)
    /\ ~OnSegment(args.a, args.b, args.d)

\* C18: for vertices with coordinates in 0 .. tile_width + 2 * walkable_radius,
\* whatever the 16-bit settings, area_sqr returns the mathematical value
\* without overflow, and collinear, left and left_on the true orientation.
C18_AreaSqrExact ==
    result # << >> =>
        LET exact == area_exact(args.a, args.b, args.c)
        IN  /\ ~result.panic
            /\ Wide(0, result.value) = exact
            /\ result.collinear = (wide_sign(exact) = 0)
            /\ result.left = (wide_sign(exact) < 0)
            /\ result.left_on = (wide_sign(exact) <= 0)

\* C19: for a position with both coordinates in
\* [-world_half_extents, world_half_extents), the tile returned by
\* get_tile_containing_position has bounds (min, max) with min <= p < max in
\* both coordinates, and min is the tile's origin.
C19_TileContainsPosition ==
    result # << >> =>
        /\ result.bounds.min.x <= args.x /\ args.x < result.bounds.max.x
        /\ result.bounds.min.z <= args.z /\ args.z < result.bounds.max.z
        /\ result.bounds.min = result.origin

\* A step of handle_removed_affectors_system.
HandlerRuns ==
    /\ "handle_removed_affectors_system" \notin frame
    /\ "handle_removed_affectors_system" \in frame'

C22_IndexesAgree ==
    \A e \in Entities, t \in AllTiles :
        (t \in DOMAIN tile_affectors /\ e \in tile_affectors[t])
            <=> (e \in DOMAIN affector_relations /\ t \in affector_relations[e])

NewRuns(t) == { r \in runs' \ runs : r.tile_coord = t }

\* A tile leaves the dirty set only by the dispatch of exactly one run for
\* it, however often it was marked, and runs are spawned for no other tile.
DirtyConsumedByOneRun ==
    \A t \in AllTiles :
        IF t \in dirty_tiles /\ t \notin dirty_tiles'
        THEN Cardinality(NewRuns(t)) = 1
        ELSE NewRuns(t) = {}

\* C24: dirty marks coalesce and are consumed on dispatch (a tile leaves the
\* dirty set exactly when one run is dispatched for it), and a tile marked
\* dirty again while a run of it is in flight is dispatched once more.
C24_DirtyCoalescedAndRedispatched ==
    /\ [][DirtyConsumedByOneRun]_vars
    /\ \A t \in AllTiles :
          (t \in dirty_tiles /\ InFlight(t) # {} /\ Some(0) # max_tile_generation_tasks)
              ~> (t \notin dirty_tiles)

\* The safety half of C24 alone.
C24_Safety == [][DirtyConsumedByOneRun]_vars

\* C25: the stamp and the snapshot of a run are taken in one dispatch step:
\* a run is spawned with a stamp above the stamp of every run dispatched
\* before, and with the geometry of the entities that are affectors of its
\* tile in the world as it is in that very step, which changes no affector.
\* Hence of two runs of a tile the one with the higher stamp carries the
\* snapshot gathered no earlier.
C25_StampAndSnapshotInOneStep ==
    [][\A r \in runs' \ runs :
          /\ r.generation > generation_ticker
          /\ r.generation <= generation_ticker'
          /\ \A q \in runs : q.generation < r.generation
          /\ \A i \in DOMAIN dispatched : dispatched[i] < r.generation
          /\ r.kind = "build" =>
                GatheredEntities(r) =
                    { e \in tile_affectors[r.tile_coord] :
                        entState[e] = "affector" /\ shape[e] \notin UnsupportedShapes }
          /\ << worldVars, colliderVars, tile_affectors >>' =
                 << worldVars, colliderVars, tile_affectors >>]_vars

\* Two runs of one tile are in flight; the one with the higher stamp carries
\* a snapshot that differs from the one of the run with the lower stamp.
C25_Witness ==
    \E r1, r2 \in runs :
        /\ r1.tile_coord = r2.tile_coord
        /\ r1.generation < r2.generation
        /\ r1.kind = "build" /\ r2.kind = "build"
        /\ GatheredEntities(r1) # GatheredEntities(r2)
        /\ GatheredEntities(r2) = { e \in tile_affectors[r2.tile_coord] :
                                      entState[e] = "affector" }

\* C26: with max_tile_generation_tasks = Some(n), the dispatched runs that
\* have not completed, removal runs and build runs together, never number
\* more than n.
C26_RunsInFlightCapped ==
    \A n \in max_tile_generation_tasks : Cardinality(runs) <= n

\* C26 as amended: with max_tile_generation_tasks = Some(n), the dispatched
\* build runs that have not completed never number more than n; each is a
\* task of ActiveGenerationTasks.  Removal runs are detached and not counted.
C26_BuildRunsInFlightCapped ==
    \A n \in max_tile_generation_tasks :
        /\ Cardinality({ r \in runs : r.kind = "build" }) <= n
        /\ \A r \in runs : r.kind = "build" => r.generation \in active_generation_tasks

\* Under a cap of one, a build run and a removal run are in flight together.
C26_Witness ==
    /\ max_tile_generation_tasks = Some(1)
    /\ \E r \in runs : r.kind = "build"
    /\ \E r \in runs : r.kind = "remove"

\* Twice the signed area of the triangle abc; negative when c lies on the
\* side of ab that `left` names.
Turn(a, b, c) == Cross(Diff(b, a), Diff(c, a))

\* The diagonal from vertex v to p lies inside the interior cone spanned at v
\* by the previous vertex prev and the next vertex next: at a convex vertex
\* (next left of or on the line prev-v) p is strictly inside both edges, at a
\* reflex vertex p is not inside or on the exterior cone.
InInteriorCone(prev, v, next, p) ==
    IF Turn(prev, v, next) <= 0
    THEN Turn(v, p, prev) < 0 /\ Turn(p, v, next) < 0
    ELSE ~(Turn(v, p, next) <= 0 /\ Turn(p, v, prev) <= 0)

\* C27: for every vertex index, outline and point of the grid, in_cone is
\* true exactly when the diagonal from outline[i] to the point lies inside
\* the interior cone at vertex i.
C27_InConeExact ==
    result # << >> =>
        LET ov == args.outline_vertices
            len == Len(ov)
        IN  result.value <=> InInteriorCone(ov[((len + args.i - 1) % len) + 1],
                                            ov[args.i + 1],
                                            ov[((args.i + 1) % len) + 1],
                                            args.point)

\* C28: intersect is symmetric in its two segments and in the endpoints of
\* each: intersect(a, b, c, d) = intersect(c, d, a, b) = intersect(b, a, c, d)
\* = intersect(a, b, d, c) for all points of the grid.
C28_IntersectSymmetric ==
    result # << >> =>
        /\ result.value = intersect(args.c, args.d, args.a, args.b)
        /\ result.value = intersect(args.b, args.a, args.c, args.d)
        /\ result.value = intersect(args.a, args.b, args.d, args.c)

\* intersect was called on segments that do not cross properly and touch at
\* b alone, an end of the first segment that lies inside the second.
C28_Witness ==
    /\ result # << >>
    /\ result.value
    /\ args.a # args.b /\ args.c # args.d
    /\ ~intersect_prop(args.a, args.b, args.c, args.d)
    /\ between(args.c, args.d, args.b)
    /\ ~between(args.c, args.d, args.a)
    /\ ~between(args.a, args.b, args.c)
    /\ ~between(args.a, args.b, args.d)

\* The cell of an index of the row-major grid, and the index of a cell.
CellOf(index) == [x |-> index % get_tile_side_with_border,
                  z |-> index \div get_tile_side_with_border]
IndexOf(cell) == cell.x + cell.z * get_tile_side_with_border

\* The documented direction table: 0: (-1, 0), 1: (0, 1), 2: (1, 0), 3: (0, -1).
DirectionTable == << [x |-> -1, z |-> 0], [x |-> 0, z |-> 1],
                     [x |-> 1, z |-> 0], [x |-> 0, z |-> -1] >>

NeighbourCell(index, dir) ==
    [x |-> CellOf(index).x + DirectionTable[dir + 1].x,
     z |-> CellOf(index).z + DirectionTable[dir + 1].z]

\* The cell has a neighbour in the direction inside the tile.
HasNeighbour(index, dir) ==
    /\ NeighbourCell(index, dir).x \in 0..(get_tile_side_with_border - 1)
    /\ NeighbourCell(index, dir).z \in 0..(get_tile_side_with_border - 1)

\* C29: for a cell that has a neighbour in direction d, get_neighbour_index
\* returns the index of the cell the direction table names, the call in the
\* opposite direction from there returns the cell's own index, and neither
\* call underflows.
C29_NeighbourIndexUndone ==
    (result # << >> /\ HasNeighbour(args.index, args.dir)) =>
        /\ ~result.panic
        /\ ~result.wrapped
        /\ result.neighbour = IndexOf(NeighbourCell(args.index, args.dir))
        /\ result.back = args.index

\* The neighbour of a cell in direction 3, one row of the grid below it, was
\* asked for, and the way back was taken.
C29_Witness ==
    /\ result # << >>
    /\ args.dir = 3
    /\ HasNeighbour(args.index, args.dir)
    /\ result.neighbour = args.index - get_tile_side_with_border
    /\ result.back = args.index

====
